---- MODULE Spec2Model ----
(***************************************************************************)
(* Model of pullbox (src/pullbox/__init__.py): the Pullbox daemon.         *)
(*                                                                         *)
(* Processes: "main" runs Pullbox.start (preconditions, the initial        *)
(* pull_changes, observer start, thread launch, joins); "track", "pull"    *)
(* and "push" are the three daemon threads, each running keeprunning over  *)
(* track_remote_changes, pull_changes and push_changes.  The watchdog      *)
(* observer delivers filesystem events to LocalFSEventHandler.             *)
(*                                                                         *)
(* One action is one statement of the source that touches shared state     *)
(* (fs_changed, next_pull_at, the process working directory) or issues a   *)
(* command, so every interleaving of the threads at those statements is a  *)
(* behaviour of the model.  Times are in tenths of a second: time.time()   *)
(* is the variable now, advanced by Tick.  time.sleep(d) is recorded with  *)
(* its argument d; the model does not force the clock to advance by d, so  *)
(* the threads of the model are at least as fast as the real ones.         *)
(***************************************************************************)
EXTENDS Integers, Sequences, FiniteSets, TLC

VARIABLES
    fs_changed,     \* Pullbox.fs_changed (line 93)
    next_pull_at,   \* Pullbox.next_pull_at (line 97)
    now,            \* time.time(), in tenths of a second
    ticks,          \* number of clock advances so far (bounded by MaxTicks)
    cwd,            \* the process working directory (os.getcwd / os.chdir)
    fsx,            \* what exists locally: "none", "parent" (bpath), "both" (bpath and path)
    pc,             \* pc[p]: the statement process p executes next
    saved,          \* saved[p]: the local variable cwd of the function p is in
    exc,            \* exc[p]: the exception in flight while p runs a finally block (NoExc if none)
    issued,         \* issued[p]: the commands p issued in its current operation call
                    \* (for main: since start was called), each with its exit status
    observer,       \* fs_observer started (line 239)
    exitcode,       \* process exit status, -1 while the process runs
    obs,            \* the history a specification records (constant in a behaviour)
    ktrace,         \* ktrace[t]: what keeprunning did in thread t (first MaxTrace entries)
    evPending,      \* a qualifying filesystem event occurred and no stage step started since
    pushNonzero,    \* a command of push_changes has exited with a code other than 0
    notifSinceCmd,  \* track set next_pull_at since the last "git pull" invocation
    notifSinceDone, \* track set next_pull_at since the last pull_changes completed (line 201)
    lastPullCmdAt,  \* time of the last "git pull" invocation, -1 if none
    lastPullCmdOk,  \* the last "git pull" invocation returned without raising
    lastPullDoneAt, \* time at which pull_changes last executed line 201, -1 if none
    lastGap,        \* while a call of pull_changes is past its "git pull" invocation:
                    \* the time between that invocation and the one before (gap),
                    \* whether the one before returned without raising (prevOk) and
                    \* whether track set next_pull_at between the two (notified);
                    \* NoGap otherwise
    probe,          \* the call under examination in the specifications of the pure
                    \* functions (invoke_process, on_any_event); NoProbe in the daemon
    lastSkip        \* if the last call of pull_changes returned at line 189: when (at),
                    \* and whether track had set next_pull_at since the last "git pull"
                    \* invocation (notified); NoSkip if it went on

vars == <<fs_changed, next_pull_at, now, ticks, cwd, fsx, pc, saved, exc, issued,
          observer, exitcode, obs, ktrace, evPending, pushNonzero, notifSinceCmd,
          notifSinceDone, lastPullCmdAt, lastPullCmdOk, lastPullDoneAt, lastGap,
          lastSkip, probe>>

shared == <<fs_changed, next_pull_at, cwd, fsx>>
local == <<pc, saved, exc, issued, observer, exitcode, ktrace>>
clock == <<now, ticks, obs>>
hist == <<evPending, pushNonzero, notifSinceCmd, notifSinceDone,
          lastPullCmdAt, lastPullCmdOk, lastPullDoneAt, lastGap, lastSkip>>

\* The history variables (ktrace and hist) are written and never read by the
\* program's actions, so the program behaves alike whatever is recorded.  A
\* specification records the history named in obs: a thread's name for its
\* ktrace, "dirty" for evPending and pushNonzero, "cmd" for lastPullCmdAt,
\* lastPullCmdOk, notifSinceCmd and lastGap, "done" for lastPullDoneAt and notifSinceDone,
\* "guard" for lastSkip.
NoGap == [gap |-> -1, prevOk |-> FALSE, notified |-> FALSE]
NoSkip == [at |-> -1, notified |-> FALSE]
Rec(name, new, old) == IF name \in obs THEN new ELSE old

(***************************************************************************)
(* Bounds and program constants                                            *)
(***************************************************************************)
MaxTicks == 1
MaxTrace == 6

POLL_INTERVAL == 600    \* 60 seconds (line 79), in tenths of a second
ERROR_WAIT == 10        \* keeprunning's error_wait=1 (line 145), in tenths
LOOP_WAIT == 1          \* wait=0.1 of the pull and push loops (lines 246-247)
TRACK_WAIT == 0         \* keeprunning's default wait=0 (lines 145, 245)
SIGINT_EXIT == 130      \* line 108
COMMIT_IGNORE == 1      \* ignore_code=1 of the commit step (line 213)
PUSH_IGNORE == -2       \* ignore_code=-2 of the push step (line 215)
DEFAULT_IGNORE == 0     \* invoke_process's default ignore_code=0 (line 102)

Threads == {"track", "pull", "push"}
Procs == {"main"} \cup Threads
Pullers == {"main", "pull"}

\* Exit statuses subprocess.call may return: success, a generic failure (git's
\* "nothing to commit" and a rejected push both exit 1), SIGINT's conventional
\* status, and -2 (the child was killed by signal 2).
ExitCodes == {0, 1, SIGINT_EXIT, PUSH_IGNORE}

\* The clock advances by just less than, or exactly, the poll interval.
TickSteps == {POLL_INTERVAL - 1, POLL_INTERVAL}

BINARIES_NEEDED == {"git", "ssh"}

(***************************************************************************)
(* invoke_process (lines 102-115): the classification of an exit status.   *)
(***************************************************************************)
\* What a call leaves in flight: nothing (kind "ok"), KeyboardInterrupt, or
\* PullboxCalledProcessError(cmd, retcode) (lines 26-33).
NoExc == [kind |-> "ok", cmd |-> "", retcode |-> 0]
KeyboardInterrupt == [kind |-> "interrupt", cmd |-> "", retcode |-> 0]
PullboxCalledProcessError(cmd, retcode) ==
    [kind |-> "error", cmd |-> cmd, retcode |-> retcode]

\* The argument ignore_code is a Python value: an int, a list or a tuple.
PyInt(n) == [type |-> "int", val |-> n]
PyList(s) == [type |-> "list", val |-> s]
PyTuple(s) == [type |-> "tuple", val |-> s]

\* A variant in which the caller's ignore_code is disregarded: only the
\* default is tolerated.  C8 depends on the difference.
IgnoreListDefault(ignore_code) == {DEFAULT_IGNORE}

\* lines 111-112: a scalar ignore_code becomes a one-element list
IgnoreList(ignore_code) ==
    IF ignore_code.type \notin {"list", "tuple"}
    THEN {ignore_code.val}
    ELSE {ignore_code.val[i] : i \in 1..Len(ignore_code.val)}

\* A variant that consults the ignore list before it looks for 130.  C12
\* depends on the difference.
invoke_processIgnoreFirst(cmd, ignore_code, r) ==
    IF r = 0 \/ r \in IgnoreList(ignore_code) THEN NoExc
    ELSE IF r = SIGINT_EXIT THEN KeyboardInterrupt
    ELSE PullboxCalledProcessError(cmd, r)

\* invoke_process(cmd, ignore_code) when subprocess.call returns r
invoke_process(cmd, ignore_code, r) ==
    IF r = SIGINT_EXIT THEN KeyboardInterrupt
    ELSE IF r # 0 /\ r \notin IgnoreList(ignore_code)
         THEN PullboxCalledProcessError(cmd, r)
    ELSE NoExc

Wait(t) == IF t = "track" THEN TRACK_WAIT ELSE LOOP_WAIT

Entry(p) == CASE p = "track" -> "tr_watch"
              [] p = "push"  -> "ps_check"
              [] OTHER       -> "pl_guard"

Record(t, entries) ==
    IF t \in obs
    THEN [ktrace EXCEPT ![t] = SubSeq(@ \o entries, 1,
                                 IF Len(@ \o entries) < MaxTrace
                                 THEN Len(@ \o entries) ELSE MaxTrace)]
    ELSE ktrace

(***************************************************************************)
(* Initial state: Pullbox.__init__ (lines 81-97) has run, start() begins.  *)
(***************************************************************************)
NoProbe == [kind |-> "none"]

InitRest(observed) ==
    /\ next_pull_at = 0
    /\ now = 1
    /\ ticks = 0
    /\ cwd = "start"
    /\ fsx \in {"none", "parent", "both"}
    /\ pc = [p \in Procs |-> IF p = "main" THEN "check_binaries" ELSE "unborn"]
    /\ saved = [p \in Procs |-> "none"]
    /\ exc = [p \in Procs |-> NoExc]
    /\ issued = [p \in Procs |-> <<>>]
    /\ observer = FALSE
    /\ exitcode = -1
    /\ obs = observed
    /\ ktrace = [t \in Threads |-> <<>>]
    /\ evPending = FALSE
    /\ pushNonzero = FALSE
    /\ notifSinceCmd = FALSE
    /\ notifSinceDone = FALSE
    /\ lastPullCmdAt = -1
    /\ lastPullCmdOk = FALSE
    /\ lastPullDoneAt = -1
    /\ lastGap = NoGap
    /\ lastSkip = NoSkip

InitProg(observed) == fs_changed = TRUE /\ InitRest(observed)

InitWith(observed) == InitProg(observed) /\ probe = NoProbe

Init == InitWith({})

(***************************************************************************)
(* Helpers shared by the operations                                        *)
(***************************************************************************)
Ev(e, a) == [ev |-> e, arg |-> a]

\* A variant of keeprunning that sleeps wait, not error_wait, after a
\* failure.  C10 depends on the difference.
keeprunningNoErrorWait(t, outcome) ==
    CASE outcome = "interrupt" ->
           [did |-> <<Ev("interrupt", 0)>>, next |-> "dead"]
      [] outcome = "error" ->
           [did |-> <<Ev("error", 0), Ev("log", 0), Ev("sleep", Wait(t))>>,
            next |-> Entry(t)]
      [] OTHER ->
           [did |-> <<Ev("ok", 0), Ev("sleep", Wait(t))>>, next |-> Entry(t)]

\* A variant of keeprunning whose bare except also catches the interruption.
\* C11 depends on the difference.
keeprunningCatchAll(t, outcome) ==
    CASE outcome = "ok" ->
           [did |-> <<Ev("ok", 0), Ev("sleep", Wait(t))>>, next |-> Entry(t)]
      [] OTHER ->
           [did |-> <<Ev("error", 0), Ev("log", 0), Ev("sleep", ERROR_WAIT)>>,
            next |-> Entry(t)]

\* A variant of keeprunning without the bare except: an error leaves it.
\* C16 depends on the difference.
keeprunningNoCatch(t, outcome) ==
    CASE outcome = "ok" ->
           [did |-> <<Ev("ok", 0), Ev("sleep", Wait(t))>>, next |-> Entry(t)]
      [] outcome = "error" ->
           [did |-> <<Ev("error", 0)>>, next |-> "dead"]
      [] OTHER ->
           [did |-> <<Ev("interrupt", 0)>>, next |-> "dead"]

\* keeprunning (lines 145-161), one iteration after fn() ended with outcome
\* kind "ok", "error" or "interrupt": what the supervisor does (did) and where the
\* thread goes (next).  On "ok": time.sleep(wait), call fn again (line 161).
\* On "error": log, time.sleep(error_wait), continue (lines 156-159).
\* KeyboardInterrupt is re-raised (line 155): it leaves the thread's target,
\* and the thread ends.
keeprunning(t, outcome) ==
    CASE outcome = "ok" ->
           [did |-> <<Ev("ok", 0), Ev("sleep", Wait(t))>>, next |-> Entry(t)]
      [] outcome = "error" ->
           [did |-> <<Ev("error", 0), Ev("log", 0), Ev("sleep", ERROR_WAIT)>>,
            next |-> Entry(t)]
      [] OTHER ->
           [did |-> <<Ev("interrupt", 0)>>, next |-> "dead"]

\* The call of p's operation ends.  In main (start, lines 227-236, and main,
\* lines 272-282) an exception ends the process with status 1; in a thread
\* the caller is keeprunning.
Finish(p, outcome) ==
    /\ pc' = [pc EXCEPT ![p] =
                IF p = "main"
                THEN IF outcome = "ok" THEN "observer_start" ELSE "exited"
                ELSE keeprunning(p, outcome).next]
    /\ exitcode' = IF p = "main" /\ outcome # "ok" THEN 1 ELSE exitcode
    /\ ktrace' = IF p = "main" THEN ktrace ELSE Record(p, keeprunning(p, outcome).did)

\* The frame of a call ends: a thread's next call starts with nothing issued.
EndFrame(p) == issued' = [issued EXCEPT ![p] = IF p = "main" THEN @ ELSE <<>>]

Goto(p, l) ==
    /\ pc' = [pc EXCEPT ![p] = l]
    /\ UNCHANGED <<exitcode, ktrace>>

Alive(p, l) == exitcode = -1 /\ pc[p] = l

Issue(p, cmd, r) == issued' = [issued EXCEPT ![p] = Append(@, [cmd |-> cmd, rc |-> r])]


\* self.invoke_process(cmd, ignore_code) inside a try block whose finally is
\* at fin: on success go on to ok, otherwise run the finally block with the
\* exception in flight.
TryInvoke(p, cmd, ignore_code, r, ok, fin) ==
    /\ Issue(p, cmd, r)
    /\ LET e == invoke_process(cmd, ignore_code, r) IN
       IF e = NoExc
       THEN Goto(p, ok) /\ UNCHANGED exc
       ELSE Goto(p, fin) /\ exc' = [exc EXCEPT ![p] = e]

\* The frame of the function p is in ends: its local variable cwd is gone.
DropFrame(p) == saved' = [saved EXCEPT ![p] = "none"]

\* A variant without the finally clause: the directory is restored only when
\* nothing was raised.  C18 depends on the difference.
FinallyOnSuccess(p, next) ==
    /\ cwd' = IF exc[p] = NoExc THEN saved[p] ELSE cwd
    /\ exc' = [exc EXCEPT ![p] = NoExc]
    /\ IF exc[p] = NoExc
       THEN Goto(p, next) /\ UNCHANGED <<issued, saved>>
       ELSE Finish(p, exc[p].kind) /\ EndFrame(p) /\ DropFrame(p)

\* finally: os.chdir(cwd) (lines 186, 199, 217), then either fall through to
\* next or let the exception in flight leave the function.
Finally(p, next) ==
    /\ cwd' = saved[p]
    /\ exc' = [exc EXCEPT ![p] = NoExc]
    /\ IF exc[p] = NoExc
       THEN Goto(p, next) /\ UNCHANGED <<issued, saved>>
       ELSE Finish(p, exc[p].kind) /\ EndFrame(p) /\ DropFrame(p)

(***************************************************************************)
(* Pullbox.start and main (lines 227-252, 272-284)                         *)
(***************************************************************************)
check_binaries ==
    /\ Alive("main", "check_binaries")
    /\ \E have \in SUBSET BINARIES_NEEDED :
          IF have = BINARIES_NEEDED
          THEN Goto("main", "crb_git")
          ELSE Finish("main", "error")
    /\ UNCHANGED <<shared, clock, probe, hist, saved, exc, issued, observer>>

check_remote_binaries ==
    /\ exitcode = -1
    /\ pc["main"] \in {"crb_git", "crb_inotifywait"}
    /\ \E r \in ExitCodes :
          LET cmd == IF pc["main"] = "crb_git" THEN "ssh which git"
                     ELSE "ssh which inotifywait"
              e == invoke_process(cmd, PyInt(DEFAULT_IGNORE), r)
          IN
          /\ Issue("main", cmd, r)
          /\ IF e = NoExc
             THEN Goto("main", IF pc["main"] = "crb_git" THEN "crb_inotifywait"
                               ELSE "ensure_remote_repo")
             ELSE Finish("main", e.kind)
    /\ UNCHANGED <<shared, clock, probe, hist, saved, exc, observer>>

\* A variant of start that goes on to the initial pull whatever became of
\* the remote "git init".  C14 depends on the difference.
ensure_remote_repoUnchecked ==
    /\ Alive("main", "ensure_remote_repo")
    /\ \E r \in ExitCodes : Issue("main", "ssh git init --bare", r)
    /\ Goto("main", "pl_guard")
    /\ UNCHANGED <<shared, clock, probe, hist, saved, exc, observer>>

ensure_remote_repo ==
    /\ Alive("main", "ensure_remote_repo")
    /\ \E r \in ExitCodes :
          LET e == invoke_process("ssh git init --bare", PyInt(DEFAULT_IGNORE), r) IN
          /\ Issue("main", "ssh git init --bare", r)
          /\ IF e = NoExc THEN Goto("main", "pl_guard") ELSE Finish("main", e.kind)
    /\ UNCHANGED <<shared, clock, probe, hist, saved, exc, observer>>

observer_start ==
    /\ Alive("main", "observer_start")
    /\ observer' = TRUE
    /\ Goto("main", "spawn_track")
    /\ UNCHANGED <<shared, clock, probe, hist, saved, exc, issued>>

\* run_thread (lines 221-225, 245-247): the three threads start in order.
run_thread ==
    /\ exitcode = -1
    /\ \E t \in Threads :
          /\ pc["main"] = "spawn_" \o t
          /\ pc' = [pc EXCEPT ![t] = Entry(t),
                              !["main"] = CASE t = "track" -> "spawn_pull"
                                            [] t = "pull" -> "spawn_push"
                                            [] OTHER -> "join_track"]
    /\ UNCHANGED <<shared, clock, probe, hist, saved, exc, issued, observer, exitcode, ktrace>>

\* Thread.join (lines 250-252), then start returns and main calls sys.exit(0).
join ==
    /\ exitcode = -1
    /\ \E t \in Threads :
          /\ pc["main"] = "join_" \o t
          /\ pc[t] = "dead"
          /\ pc' = [pc EXCEPT !["main"] = CASE t = "track" -> "join_pull"
                                            [] t = "pull" -> "join_push"
                                            [] OTHER -> "exited"]
          /\ exitcode' = IF t = "push" THEN 0 ELSE exitcode
    /\ UNCHANGED <<shared, clock, probe, hist, saved, exc, issued, observer, ktrace>>

(***************************************************************************)
(* LocalFSEventHandler.on_any_event (lines 65-71), Pullbox.on_fs_change    *)
(* (lines 99-100).  A path is its sequence of segments (split on os.sep),  *)
(* a segment a sequence of characters.                                     *)
(***************************************************************************)
GitDir == <<".", "g", "i", "t">>
Segments == {GitDir, <<".", "x">>, <<"a">>, <<"g", "i", "t">>,
             <<"a", ".", "g", "i", "t">>, <<>>}
Paths == {<<s>> : s \in Segments} \cup {<<s, t>> : s \in Segments, t \in Segments}
EventTypes == {"created", "deleted", "moved", "modified"}
Events == [event_type : EventTypes, src_path : Paths, is_directory : BOOLEAN]

basename(path) == path[Len(path)]
startswith_dot(seg) == Len(seg) > 0 /\ seg[1] = "."

\* A variant without the test for a modified directory.  C13 depends on the
\* difference.
on_any_eventNoDirTest(evt) ==
    LET is_git_dir == \E i \in 1..Len(evt.src_path) : evt.src_path[i] = GitDir
        is_dot_file == startswith_dot(basename(evt.src_path))
    IN ~(is_git_dir \/ is_dot_file)

on_any_event(evt) ==
    LET is_git_dir == \E i \in 1..Len(evt.src_path) : evt.src_path[i] = GitDir
        is_dot_file == startswith_dot(basename(evt.src_path))
        is_dir_modified == evt.event_type = "modified" /\ evt.is_directory
    IN ~(is_git_dir \/ is_dot_file \/ is_dir_modified)

FilterResults == {on_any_event(evt) : evt \in Events}

\* The observer thread delivers one event.
fs_event ==
    /\ exitcode = -1
    /\ observer
    /\ \E qualifies \in FilterResults :
          IF qualifies
          THEN fs_changed' = TRUE /\ evPending' = Rec("dirty", TRUE, evPending)
          ELSE UNCHANGED <<fs_changed, evPending>>
    /\ UNCHANGED pushNonzero
    /\ UNCHANGED <<next_pull_at, cwd, fsx, clock, probe, pc, saved, exc, issued, observer,
                   exitcode, ktrace, notifSinceCmd, notifSinceDone,
                   lastPullCmdAt, lastPullCmdOk, lastPullDoneAt, lastGap, lastSkip>>

(***************************************************************************)
(* track_remote_changes (lines 163-167)                                    *)
(***************************************************************************)
track_watch ==
    /\ Alive("track", "tr_watch")
    /\ \E r \in ExitCodes :
          LET e == invoke_process("ssh inotifywait", PyInt(DEFAULT_IGNORE), r) IN
          IF e = NoExc
          THEN Goto("track", "tr_set") /\ Issue("track", "ssh inotifywait", r)
          ELSE Finish("track", e.kind) /\ EndFrame("track")
    /\ UNCHANGED <<shared, clock, probe, hist, saved, exc, observer>>

track_set ==
    /\ Alive("track", "tr_set")
    /\ next_pull_at' = now
    /\ notifSinceCmd' = Rec("cmd", TRUE, notifSinceCmd)
    /\ notifSinceDone' = Rec("done", TRUE, notifSinceDone)
    /\ Finish("track", "ok")
    /\ EndFrame("track")
    /\ UNCHANGED <<fs_changed, cwd, fsx, clock, probe, saved, exc, observer,
                   evPending, pushNonzero, lastPullCmdAt, lastPullCmdOk,
                   lastPullDoneAt, lastGap,
                   lastSkip>>

(***************************************************************************)
(* pull_changes (lines 188-201) and init_local_repo (lines 169-186), run   *)
(* by main (the initial pull, line 236) and by the pull thread.            *)
(***************************************************************************)
\* A variant of the guard that lets a call through a whole interval early.
\* C4 depends on the difference.
PullSkipsLate(deadline, t) == deadline > t + POLL_INTERVAL

\* line 189: if self.next_pull_at > time.time(): return
PullSkips(deadline, t) == deadline > t

\* A variant that sets the deadline to the current time.  C3 depends on the
\* difference.
NextDeadlineNow(t) == t

\* A variant that puts the deadline two intervals ahead.  C19 depends on the
\* difference.
NextDeadlineDouble(t) == t + 2 * POLL_INTERVAL

\* line 201: self.next_pull_at = time.time() + self.POLL_INTERVAL
NextDeadline(t) == t + POLL_INTERVAL

\* lines 189-192: the guard, then the choice between bootstrap and pull
pull_guard(p) ==
    /\ Alive(p, "pl_guard")
    /\ IF PullSkips(next_pull_at, now)
       THEN Finish(p, "ok")
       ELSE Goto(p, IF fsx # "both" THEN "il_makedirs" ELSE "pl_getcwd")
    /\ lastSkip' = IF PullSkips(next_pull_at, now)
                   THEN Rec("guard", [at |-> Rec("done", now, 0),
                                      notified |-> notifSinceCmd], lastSkip)
                   ELSE NoSkip
    /\ UNCHANGED <<shared, clock, probe, saved, exc, issued, observer, evPending,
                   pushNonzero,
                   notifSinceCmd, notifSinceDone, lastPullCmdAt, lastPullCmdOk,
                   lastPullDoneAt, lastGap>>

\* lines 170-173
init_makedirs(p) ==
    /\ Alive(p, "il_makedirs")
    /\ IF fsx = "none"
       THEN fsx' = "parent" /\ Issue(p, "makedirs", 0)
       ELSE UNCHANGED <<fsx, issued>>
    /\ Goto(p, "il_getcwd")
    /\ UNCHANGED <<fs_changed, next_pull_at, cwd, clock, probe, hist, saved, exc, observer>>

\* lines 175, 194, 206: cwd = os.getcwd()
getcwd(p) ==
    /\ exitcode = -1
    /\ pc[p] \in {"il_getcwd", "pl_getcwd", "ps_getcwd"}
    /\ saved' = [saved EXCEPT ![p] = cwd]
    /\ Goto(p, CASE pc[p] = "il_getcwd" -> "il_chdir_parent"
                 [] pc[p] = "pl_getcwd" -> "pl_chdir"
                 [] OTHER -> "ps_chdir")
    /\ UNCHANGED <<shared, clock, probe, hist, exc, issued, observer>>

\* lines 177, 180, 196, 208: os.chdir(bpath) / os.chdir(self.path)
chdir(p) ==
    /\ exitcode = -1
    /\ pc[p] \in {"il_chdir_parent", "il_chdir_path", "pl_chdir", "ps_chdir"}
    /\ cwd' = IF pc[p] = "il_chdir_parent" THEN "parent" ELSE "local"
    /\ Goto(p, CASE pc[p] = "il_chdir_parent" -> "il_clone"
                 [] pc[p] = "il_chdir_path" -> "il_touch"
                 [] pc[p] = "pl_chdir" -> "pl_pull"
                 [] OTHER -> "ps_add")
    /\ UNCHANGED <<fs_changed, next_pull_at, fsx, clock, probe, hist, saved, exc, issued,
                   observer>>

\* line 178: git clone creates self.path
init_clone(p) ==
    /\ Alive(p, "il_clone")
    /\ \E r \in ExitCodes :
          /\ TryInvoke(p, "git clone", PyInt(DEFAULT_IGNORE), r, "il_chdir_path", "il_finally")
          /\ fsx' = IF invoke_process("git clone", PyInt(DEFAULT_IGNORE), r) = NoExc
                    THEN "both" ELSE fsx
    /\ UNCHANGED <<fs_changed, next_pull_at, cwd, clock, probe, hist, saved, observer>>

\* lines 181-184
InitSteps == <<"il_touch", "il_add", "il_commit", "il_push", "il_finally">>
InitCmds == <<"touch README.md", "git add README.md", "git commit -a -m initial",
              "git push origin master">>

init_seed(p) ==
    /\ exitcode = -1
    /\ \E i \in 1..Len(InitCmds), r \in ExitCodes :
          /\ pc[p] = InitSteps[i]
          /\ TryInvoke(p, InitCmds[i], PyInt(DEFAULT_IGNORE), r, InitSteps[i + 1], "il_finally")
    /\ UNCHANGED <<shared, clock, probe, hist, saved, observer>>

\* A variant of pull_changes in which init_local_repo stands for the whole
\* call (an else branch before line 194).  C15 depends on the difference.
init_finallyElse(p) ==
    /\ Alive(p, "il_finally")
    /\ Finally(p, "pl_set")
    /\ UNCHANGED <<fs_changed, next_pull_at, fsx, clock, probe, hist, observer>>

\* lines 185-186
init_finally(p) ==
    /\ Alive(p, "il_finally")
    /\ Finally(p, "pl_getcwd")
    /\ UNCHANGED <<fs_changed, next_pull_at, fsx, clock, probe, hist, observer>>

\* line 197: git pull
pull_pull(p) ==
    /\ Alive(p, "pl_pull")
    /\ \E r \in ExitCodes :
          /\ TryInvoke(p, "git pull", PyInt(DEFAULT_IGNORE), r, "pl_finally", "pl_finally")
          /\ lastPullCmdOk' = Rec("cmd",
                 invoke_process("git pull", PyInt(DEFAULT_IGNORE), r) = NoExc, lastPullCmdOk)
    /\ lastPullCmdAt' = Rec("cmd", now, lastPullCmdAt)
    /\ lastGap' = IF lastPullCmdAt = -1 THEN NoGap
                  ELSE Rec("cmd", [gap |-> now - lastPullCmdAt,
                                   prevOk |-> lastPullCmdOk,
                                   notified |-> notifSinceCmd], lastGap)
    /\ notifSinceCmd' = FALSE
    /\ UNCHANGED <<shared, clock, probe, saved, observer, evPending, pushNonzero,
                   notifSinceDone, lastPullDoneAt, lastSkip>>

\* lines 198-199
pull_finally(p) ==
    /\ Alive(p, "pl_finally")
    /\ Finally(p, "pl_set")
    /\ lastGap' = NoGap
    /\ UNCHANGED <<fs_changed, next_pull_at, fsx, clock, probe, observer, evPending,
                   pushNonzero,
                   notifSinceCmd, notifSinceDone, lastPullCmdAt, lastPullCmdOk,
                   lastPullDoneAt, lastSkip>>

\* line 201
pull_set(p) ==
    /\ Alive(p, "pl_set")
    /\ next_pull_at' = NextDeadline(now)
    /\ lastPullDoneAt' = Rec("done", now, lastPullDoneAt)
    /\ notifSinceDone' = FALSE
    /\ Finish(p, "ok")
    /\ EndFrame(p)
    /\ DropFrame(p)
    /\ UNCHANGED <<fs_changed, cwd, fsx, clock, probe, exc, observer,
                   evPending, pushNonzero, notifSinceCmd, lastPullCmdAt,
                   lastPullCmdOk, lastGap,
                   lastSkip>>

(***************************************************************************)
(* push_changes (lines 203-219), run by the push thread.                   *)
(***************************************************************************)
\* A variant that never returns early.  C9 depends on the difference.
PushSkipsNever(changed) == FALSE

\* A variant that always returns early.  C20 depends on the difference.
PushSkipsAlways(changed) == TRUE

\* line 204: if not self.fs_changed: return
PushSkips(changed) == ~changed

push_check ==
    /\ Alive("push", "ps_check")
    /\ IF PushSkips(fs_changed)
       THEN Finish("push", "ok")
       ELSE Goto("push", "ps_getcwd")
    /\ UNCHANGED <<shared, clock, probe, hist, saved, exc, issued, observer>>

\* line 209: git add . (the stage step)
push_add ==
    /\ Alive("push", "ps_add")
    /\ \E r \in ExitCodes :
          /\ TryInvoke("push", "git add .", PyInt(DEFAULT_IGNORE), r, "ps_commit", "ps_finally")
          /\ pushNonzero' = Rec("dirty", pushNonzero \/ r # 0, pushNonzero)
    /\ evPending' = FALSE
    /\ UNCHANGED <<shared, clock, probe, saved, observer, notifSinceCmd,
                   notifSinceDone, lastPullCmdAt, lastPullCmdOk, lastPullDoneAt,
                   lastGap, lastSkip>>

\* lines 211-213: git commit -a -m "auto commit at ...", ignore_code=1
push_commit ==
    /\ Alive("push", "ps_commit")
    /\ \E r \in ExitCodes :
          /\ TryInvoke("push", "git commit -a", PyInt(COMMIT_IGNORE), r, "ps_push", "ps_finally")
          /\ pushNonzero' = Rec("dirty", pushNonzero \/ r # 0, pushNonzero)
    /\ UNCHANGED <<shared, clock, probe, saved, observer, evPending, notifSinceCmd,
                   notifSinceDone, lastPullCmdAt, lastPullCmdOk, lastPullDoneAt,
                   lastGap, lastSkip>>

\* line 215: git push origin master, ignore_code=-2
push_push ==
    /\ Alive("push", "ps_push")
    /\ \E r \in ExitCodes :
          /\ TryInvoke("push", "git push origin master", PyInt(PUSH_IGNORE), r,
                       "ps_finally", "ps_finally")
          /\ pushNonzero' = Rec("dirty", pushNonzero \/ r # 0, pushNonzero)
    /\ UNCHANGED <<shared, clock, probe, saved, observer, evPending, notifSinceCmd,
                   notifSinceDone, lastPullCmdAt, lastPullCmdOk, lastPullDoneAt,
                   lastGap, lastSkip>>

\* A variant of push_changes whose cleanup swallows the exception in flight
\* and falls through to line 219.  C17 depends on the difference.
push_finallySwallow ==
    /\ Alive("push", "ps_finally")
    /\ cwd' = saved["push"]
    /\ saved' = [saved EXCEPT !["push"] = "none"]
    /\ exc' = [exc EXCEPT !["push"] = NoExc]
    /\ Goto("push", "ps_clear")
    /\ UNCHANGED <<fs_changed, next_pull_at, fsx, clock, probe, hist, issued, observer>>

\* lines 216-217
push_finally ==
    /\ Alive("push", "ps_finally")
    /\ Finally("push", "ps_clear")
    /\ UNCHANGED <<fs_changed, next_pull_at, fsx, clock, probe, hist, observer>>

\* line 219: self.fs_changed = False
push_clear ==
    /\ Alive("push", "ps_clear")
    /\ fs_changed' = FALSE
    /\ Finish("push", "ok")
    /\ EndFrame("push")
    /\ DropFrame("push")
    /\ UNCHANGED <<next_pull_at, cwd, fsx, clock, probe, hist, exc, observer>>

(***************************************************************************)
(* The clock                                                               *)
(***************************************************************************)
Tick ==
    /\ exitcode = -1
    /\ ticks < MaxTicks
    /\ \E d \in TickSteps : now' = now + d
    /\ ticks' = ticks + 1
    /\ UNCHANGED <<shared, hist, obs, probe, pc, saved, exc, issued, observer, exitcode,
                   ktrace>>

Step ==
    \/ check_binaries
    \/ check_remote_binaries
    \/ ensure_remote_repo
    \/ observer_start
    \/ run_thread
    \/ join
    \/ fs_event
    \/ track_watch
    \/ track_set
    \/ \E p \in Pullers : pull_guard(p)
    \/ \E p \in Pullers : init_makedirs(p)
    \/ \E p \in Procs : getcwd(p)
    \/ \E p \in Procs : chdir(p)
    \/ \E p \in Pullers : init_clone(p)
    \/ \E p \in Pullers : init_seed(p)
    \/ \E p \in Pullers : init_finally(p)
    \/ \E p \in Pullers : pull_pull(p)
    \/ \E p \in Pullers : pull_finally(p)
    \/ \E p \in Pullers : pull_set(p)
    \/ push_check
    \/ push_add
    \/ push_commit
    \/ push_push
    \/ push_finally
    \/ push_clear

Next == Step \/ Tick

\* The daemon, with no history recorded.
Spec == Init /\ [][Next]_vars

\* The daemon, with the history of the pull commands.
SpecCmd == InitWith({"cmd"}) /\ [][Next]_vars

\* The daemon, with the history of the pull commands and of the guard.
SpecGuard == InitWith({"cmd", "guard"}) /\ [][Next]_vars

\* The daemon, with the history of the completed pulls and of the guard.
SpecDone == InitWith({"done", "guard"}) /\ [][Next]_vars

\* The daemon, with the supervisor's history of one thread, while the clock
\* stands still (keeprunning reads no clock, and a notification lets
\* pull_changes go on at any time).
InitSup == \E t \in Threads : InitWith({t})
SpecSup == InitSup /\ [][Step]_vars

\* The daemon, with the history of filesystem events, main launching the
\* threads and the push thread being scheduled fairly: each is a thread of
\* its own, and each of its steps ends (a command returns, a sleep ends).
PushStep ==
    \/ push_check
    \/ getcwd("push")
    \/ chdir("push")
    \/ push_add
    \/ push_commit
    \/ push_push
    \/ push_finally
    \/ push_clear

SpecDirty ==
    InitWith({"dirty"}) /\ [][Next]_vars /\ WF_vars(run_thread) /\ WF_vars(PushStep)

(***************************************************************************)
(* The pure functions, each applied once to inputs drawn from bounded sets  *)
(***************************************************************************)
ProbeCmds == {"git pull", "git push origin master"}
ProbeCodes == {0, 1, 2, SIGINT_EXIT, PUSH_IGNORE}
ProbeLists == {<<>>, <<0>>, <<1>>, <<SIGINT_EXIT>>, <<1, SIGINT_EXIT>>, <<PUSH_IGNORE, 1>>}
IgnoreConfigs ==
    {PyInt(n) : n \in {0, 1, SIGINT_EXIT, PUSH_IGNORE}}
        \cup {PyList(l) : l \in ProbeLists}
        \cup {PyTuple(l) : l \in {<<1, SIGINT_EXIT>>, <<2>>}}

\* One call invoke_process(cmd, ignore_code) whose subprocess.call returns r.
InitInvoke ==
    /\ InitProg({})
    /\ \E c \in ProbeCmds, ig \in IgnoreConfigs, r \in ProbeCodes :
          probe = [kind |-> "invoke", cmd |-> c, ignore_code |-> ig, r |-> r,
                   out |-> NoExc, done |-> FALSE]

invoke_call ==
    /\ probe.kind = "invoke"
    /\ ~probe.done
    /\ probe' = [probe EXCEPT
                    !.out = invoke_process(probe.cmd, probe.ignore_code, probe.r),
                    !.done = TRUE]
    /\ UNCHANGED <<shared, clock, hist, local>>

SpecInvoke == InitInvoke /\ [][invoke_call]_vars

\* One event delivered to LocalFSEventHandler, whose on_change is
\* Pullbox.on_fs_change, with fs_changed either way beforehand.
InitFilter ==
    /\ fs_changed \in BOOLEAN
    /\ InitRest({})
    /\ \E e \in Events :
          probe = [kind |-> "event", evt |-> e, before |-> fs_changed, done |-> FALSE]

deliver_event ==
    /\ probe.kind = "event"
    /\ ~probe.done
    /\ fs_changed' = IF on_any_event(probe.evt) THEN TRUE ELSE fs_changed
    /\ probe' = [probe EXCEPT !.done = TRUE]
    /\ UNCHANGED <<next_pull_at, cwd, fsx, clock, hist, local>>

SpecFilter == InitFilter /\ [][deliver_event]_vars

(***************************************************************************)
(* Claims                                                                  *)
(***************************************************************************)

\* C1: every qualifying filesystem event is followed by a push cycle that
\* starts its stage step after the event, whenever the push loop is scheduled
\* fairly and every command of push_changes exits 0.  Checked under
\* SpecDirty.
C1_NoMissedEvent ==
    [](evPending => <>(~evPending \/ pushNonzero))

\* C2: a pull cycle that starts while a notification is outstanding (track set
\* next_pull_at and no "git pull" was invoked since) does not skip.  Checked
\* under SpecGuard.
C2_NotifiedPullRuns == ~lastSkip.notified

\* C3 as stated: two successive "git pull" invocations with no notification
\* between them are at least POLL_INTERVAL apart.  Checked under SpecCmd.
C3_PullRate ==
    (lastGap # NoGap /\ ~lastGap.notified) => lastGap.gap >= POLL_INTERVAL

\* C3 as amended: two successive "git pull" invocations with no notification
\* between them, the earlier of which returned without raising, are at least
\* POLL_INTERVAL apart.
C3_PullRateAfterSuccess ==
    (lastGap # NoGap /\ ~lastGap.notified /\ lastGap.prevOk)
        => lastGap.gap >= POLL_INTERVAL

\* a second "git pull" was just invoked, with no notification since the first,
\* which succeeded
C3_Witness ==
    /\ pc["pull"] = "pl_finally"
    /\ lastGap # NoGap /\ ~lastGap.notified /\ lastGap.prevOk
    /\ lastGap.gap >= POLL_INTERVAL

\* C4: a call of pull_changes made less than POLL_INTERVAL after a call that
\* completed (line 201), with no notification in between, returns at once:
\* no command issued, next_pull_at unchanged.  Checked under SpecDone.
GatedCall ==
    /\ lastPullDoneAt # -1
    /\ ~notifSinceDone
    /\ now < lastPullDoneAt + POLL_INTERVAL

C4_PullGating ==
    [][\A p \in Pullers :
          (pull_guard(p) /\ GatedCall)
              => /\ pc'[p] = Entry(p)
                 /\ issued'[p] = <<>>
                 /\ next_pull_at' = next_pull_at]_vars

\* the pull thread skipped a call just before the interval had elapsed
C4_Witness ==
    /\ pc["pull"] = "pl_guard"
    /\ lastSkip # NoSkip
    /\ GatedCall
    /\ lastSkip.at = lastPullDoneAt + POLL_INTERVAL - 1
    /\ now = lastSkip.at

\* C5: once the operation of one loop raised the interruption (its thread is
\* dead), no loop and no watcher acts any more.  Checked under Spec.
C5_InterruptStopsAll ==
    [][(\E t \in Threads : pc[t] = "dead")
          => /\ \A u \in Threads : pc'[u] = pc[u]
             /\ UNCHANGED <<fs_changed, next_pull_at, cwd, issued>>]_vars

\* C6: the pull loop and the push loop are never both between os.chdir and
\* the finally that restores the directory, and every command of theirs runs
\* in the local directory.  Checked under Spec.
InChdir(p) == pc[p] \in {"pl_pull", "pl_finally", "ps_add", "ps_commit", "ps_push",
                         "ps_finally"}
AtCommand(p) == pc[p] \in {"pl_pull", "ps_add", "ps_commit", "ps_push"}

C6_CwdMutualExclusion ==
    /\ ~(InChdir("pull") /\ InChdir("push"))
    /\ \A p \in {"pull", "push"} : AtCommand(p) => cwd = "local"

\* C7: when "git push origin master" exits 1 (rejected), push_changes has no
\* exception in flight.  Checked under Spec.
C7_PushRejectionIgnored ==
    LET iss == issued["push"] IN
    (pc["push"] = "ps_finally" /\ Len(iss) = 3 /\ iss[3].rc = 1)
        => exc["push"] = NoExc

\* C8: when stage and push exit 0 and the commit exits 1, push_changes raises
\* nothing, issues the push step, and ends by setting fs_changed to False.
\* Checked under Spec.
CommitFoundNothing ==
    LET iss == issued["push"] IN
    Len(iss) >= 2 /\ iss[1].rc = 0 /\ iss[2].rc = COMMIT_IGNORE

C8_NothingToCommit ==
    /\ [](CommitFoundNothing =>
            LET iss == issued["push"] IN
            /\ pc["push"] \in {"ps_push", "ps_finally", "ps_clear"}
            /\ pc["push"] # "ps_push" =>
                  Len(iss) = 3 /\ iss[3].cmd = "git push origin master"
            /\ (Len(iss) = 3 /\ iss[3].rc = 0) => exc["push"] = NoExc)
    /\ [][(CommitFoundNothing /\ Len(issued["push"]) = 3 /\ issued["push"][3].rc = 0)
             => /\ (pc["push"] = "ps_finally" /\ pc'["push"] # "ps_finally")
                      => pc'["push"] = "ps_clear"
                /\ (pc["push"] = "ps_clear" /\ pc'["push"] # "ps_clear")
                      => (~fs_changed' /\ pc'["push"] = Entry("push"))]_vars

\* the commit found nothing, the push went through, fs_changed is about to be cleared
C8_Witness ==
    /\ CommitFoundNothing
    /\ pc["push"] = "ps_clear"
    /\ issued["push"][3].rc = 0

\* C9: push_changes called with fs_changed False issues nothing and changes
\* neither fs_changed, next_pull_at nor the working directory.  Checked under
\* Spec.
C9_PushNoop ==
    [][(push_check /\ ~fs_changed)
          => /\ pc'["push"] = Entry("push")
             /\ issued'["push"] = <<>>
             /\ UNCHANGED <<fs_changed, next_pull_at, cwd>>]_vars

\* the push thread is at the start of a call, fs_changed is False
C9_Witness == pc["push"] = "ps_check" /\ ~fs_changed /\ issued["push"] = <<>>

\* C10: in a thread whose first call raised an error: the failure was logged
\* and error_wait slept; if the second call returned, wait was slept after
\* it, nothing else was logged or slept, and the thread still runs.  Checked
\* under SpecSup.
FailedThenOk(t) ==
    <<Ev("error", 0), Ev("log", 0), Ev("sleep", ERROR_WAIT),
      Ev("ok", 0), Ev("sleep", Wait(t))>>

C10_Resilience ==
    \A t \in obs :
       LET tr == ktrace[t] IN
       (Len(tr) >= 1 /\ tr[1].ev = "error")
          => /\ Len(tr) >= 3
             /\ SubSeq(tr, 1, 3) = SubSeq(FailedThenOk(t), 1, 3)
             /\ Len(tr) = 3 => pc[t] # "dead"
             /\ (Len(tr) >= 4 /\ tr[4].ev = "ok")
                   => /\ Len(tr) >= 5
                      /\ SubSeq(tr, 1, 5) = FailedThenOk(t)
                      /\ Len(tr) = 5 => pc[t] # "dead"

\* a thread's first call failed, its second returned, and it runs on
C10_Witness ==
    \E t \in obs : ktrace[t] = FailedThenOk(t) /\ pc[t] = Entry(t)

\* C11: when the operation of a thread raises the interruption, keeprunning
\* does nothing more: the interruption is the last thing its history holds
\* (no log, no sleep, no further call), the thread has ended, and an ended
\* thread never runs or issues a command again.  A thread ends in no other
\* way, and a call that ends with the interruption in flight ends its thread
\* at once.  Checked under SpecSup.
Interrupted(t) == \E i \in 1..Len(ktrace[t]) : ktrace[t][i].ev = "interrupt"

C11_InterruptPropagates ==
    /\ [](\A t \in obs :
            /\ \A i \in 1..Len(ktrace[t]) :
                  ktrace[t][i].ev = "interrupt" => (i = Len(ktrace[t]) /\ pc[t] = "dead")
            /\ (pc[t] = "dead" /\ Len(ktrace[t]) < MaxTrace) => Interrupted(t))
    /\ [][\A t \in Threads :
            /\ (t \in obs /\ exc[t].kind = "interrupt" /\ pc'[t] # pc[t]) =>
                  /\ pc'[t] = "dead"
                  /\ Len(ktrace[t]) < MaxTrace =>
                        ktrace'[t] = Append(ktrace[t], [ev |-> "interrupt", arg |-> 0])
            /\ pc[t] = "dead" => (pc'[t] = "dead" /\ issued'[t] = issued[t]
                                    /\ ktrace'[t] = ktrace[t])]_vars

\* a thread whose first call returned and whose second call was interrupted
C11_Witness ==
    \E t \in obs :
       /\ ktrace[t] = <<Ev("ok", 0), Ev("sleep", Wait(t)), Ev("interrupt", 0)>>
       /\ pc[t] = "dead"

\* C12: invoke_process classifies an exit status r under any ignore_code:
\* 130 is the interruption even when 130 is listed; 0 and the listed codes
\* are success; any other code is PullboxCalledProcessError with the command
\* line and the code.  Checked under SpecInvoke.
Ignorable(config) ==
    IF config.type = "int" THEN {config.val}
    ELSE {config.val[i] : i \in DOMAIN config.val}

C12_ExitCodeClasses ==
    (probe.kind = "invoke" /\ probe.done) =>
        probe.out = CASE probe.r = 130 -> [kind |-> "interrupt", cmd |-> "", retcode |-> 0]
                      [] probe.r # 130 /\ (probe.r = 0 \/ probe.r \in Ignorable(probe.ignore_code))
                           -> [kind |-> "ok", cmd |-> "", retcode |-> 0]
                      [] OTHER -> [kind |-> "error", cmd |-> probe.cmd, retcode |-> probe.r]

\* a call that exited 130 with 130 listed as ignorable was classified
C12_Witness ==
    /\ probe.kind = "invoke" /\ probe.done
    /\ probe.r = 130
    /\ probe.ignore_code.type = "list"
    /\ 130 \in Ignorable(probe.ignore_code)
    /\ probe.out.kind = "interrupt"

\* C13: an event sets fs_changed exactly when no segment of its path is
\* ".git", its basename does not start with a dot and it is not the
\* modification of a directory; otherwise fs_changed is left as it was.
\* Checked under SpecFilter.
Qualifies(evt) ==
    /\ \A i \in DOMAIN evt.src_path : evt.src_path[i] # <<".", "g", "i", "t">>
    /\ LET base == evt.src_path[Len(evt.src_path)] IN base = <<>> \/ Head(base) # "."
    /\ ~(evt.event_type = "modified" /\ evt.is_directory)

C13_WatcherFilter ==
    (probe.kind = "event" /\ probe.done) =>
        IF Qualifies(probe.evt) THEN fs_changed = TRUE
        ELSE fs_changed = probe.before

\* a file was created in a directory whose name only ends in ".git", while
\* fs_changed was False: the event was delivered and set the flag
C13_Witness ==
    /\ probe.kind = "event" /\ probe.done
    /\ probe.evt = [event_type |-> "created",
                    src_path |-> <<<<"a", ".", "g", "i", "t">>, <<"a">>>>,
                    is_directory |-> FALSE]
    /\ ~probe.before
    /\ fs_changed

\* C14: the watcher is started only after the remote binary checks, the
\* remote "git init" and the initial pull have all succeeded, in that order
\* (the local check comes before any command); a loop runs only after the
\* watcher is started; when a precondition check fails the process ends with
\* no watcher, no loop and no command other than the checks.  Checked under
\* Spec.
StartupCmds == <<"ssh which git", "ssh which inotifywait", "ssh git init --bare">>

PreconditionFailed ==
    LET iss == issued["main"] IN
    /\ exitcode = 1
    /\ Len(iss) <= Len(StartupCmds)
    /\ iss # <<>> => iss[Len(iss)].rc # 0

C14_StartupOrder ==
    LET iss == issued["main"] IN
    /\ iss # <<>> => pc["main"] # "check_binaries"
    /\ observer =>
          /\ Len(iss) > Len(StartupCmds)
          /\ \A i \in 1..Len(iss) :
                /\ iss[i].rc = 0
                /\ i <= Len(StartupCmds) => iss[i].cmd = StartupCmds[i]
                /\ i > Len(StartupCmds) =>
                      \A j \in 1..Len(StartupCmds) : iss[i].cmd # StartupCmds[j]
          /\ iss[Len(iss)].cmd = "git pull"
    /\ \A t \in Threads : pc[t] # "unborn" => observer
    /\ PreconditionFailed =>
          /\ ~observer
          /\ \A t \in Threads : pc[t] = "unborn"
          /\ \A i \in 1..Len(iss) : iss[i].cmd = StartupCmds[i]

\* the local directory was bootstrapped and pulled, the watcher and the three
\* loops are started
C14_Witness ==
    /\ observer
    /\ \A t \in Threads : pc[t] # "unborn"
    /\ Len(issued["main"]) > Len(StartupCmds) + 1

\* The commands p has issued in its call of pull_changes, os.makedirs aside.
PullCall(p) ==
    LET iss == IF p = "main"
               THEN SubSeq(issued[p], Len(StartupCmds) + 1, Len(issued[p]))
               ELSE issued[p]
    IN IF iss # <<>> /\ iss[1].cmd = "makedirs" THEN Tail(iss) ELSE iss

InPullCall(p) ==
    pc[p] \in {"il_makedirs", "il_getcwd", "il_chdir_parent", "il_clone",
               "il_chdir_path", "il_touch", "il_add", "il_commit", "il_push",
               "il_finally", "pl_getcwd", "pl_chdir", "pl_pull", "pl_finally", "pl_set"}

\* C15 as stated: a call of pull_changes performs the bootstrap or the pull,
\* never both.  Checked under Spec.
C15_BootstrapXorPull ==
    \A p \in Pullers :
       InPullCall(p) =>
          ~\E i, j \in 1..Len(PullCall(p)) :
               PullCall(p)[i].cmd = "git clone" /\ PullCall(p)[j].cmd = "git pull"

\* C15 as amended: a call that passes the guard runs the bootstrap (clone,
\* touch, add, commit, push, in that order) only when the local directory
\* does not exist, and then goes on to "git pull" as it does at once when the
\* directory exists; each command is issued only when those before it
\* succeeded; next_pull_at is set, to now + POLL_INTERVAL, exactly when
\* "git pull" succeeded.
BootstrapCmds ==
    <<"git clone", "touch README.md", "git add README.md", "git commit -a -m initial",
      "git push origin master">>

IsPrefix(a, b) == Len(a) <= Len(b) /\ \A i \in 1..Len(a) : a[i].cmd = b[i]

C15_BootstrapThenPull ==
    /\ [](\A p \in Pullers :
            InPullCall(p) =>
               LET c == PullCall(p) IN
               /\ IsPrefix(c, <<"git pull">>) \/ IsPrefix(c, BootstrapCmds \o <<"git pull">>)
               /\ \A i \in 1..(Len(c) - 1) : c[i].rc = 0
               /\ pc[p] \in {"il_makedirs", "il_getcwd", "il_chdir_parent", "il_clone"}
                     => (fsx # "both" /\ c = <<>>)
               /\ pc[p] \in {"pl_getcwd", "pl_chdir", "pl_pull"}
                     => \/ c = <<>> /\ fsx = "both"
                        \/ Len(c) = Len(BootstrapCmds) /\ c[Len(c)].rc = 0
               /\ pc[p] = "pl_set"
                     => (c[Len(c)].cmd = "git pull" /\ c[Len(c)].rc = 0))
    /\ [][\A p \in Pullers :
            pc'[p] # pc[p] =>
               IF pc[p] = "pl_set"
               THEN next_pull_at' = now + POLL_INTERVAL
               ELSE next_pull_at' = next_pull_at]_vars

\* the initial pull bootstrapped the local directory, pulled, and is about to
\* set next_pull_at
C15_Witness ==
    /\ pc["main"] = "pl_set"
    /\ Len(PullCall("main")) = Len(BootstrapCmds) + 1
    /\ PullCall("main")[1].cmd = "git clone"

\* C16 as stated: the process never ends because a command of a pull, push
\* or tracking cycle failed.  Checked under SpecSup.
C16_NeverEndsOnFailure ==
    LET iss == issued["main"] IN
    ~(/\ exitcode = 1
      /\ Len(iss) > Len(StartupCmds)
      /\ iss[Len(iss)].rc \notin {0, 130})

\* C16 as amended: when a call made by one of the three threads ends with an
\* error, keeprunning logs it, sleeps error_wait and the thread is back at
\* the start of its operation; the process runs on and no other thread or
\* main is affected.
CallFailed(t) ==
    /\ Len(ktrace'[t]) > Len(ktrace[t])
    /\ ktrace'[t][Len(ktrace[t]) + 1].ev = "error"

C16_LoopsSurviveFailure ==
    [][\A t \in obs :
         /\ (exc[t].kind = "error" /\ pc'[t] # pc[t] /\ Len(ktrace[t]) < MaxTrace)
               => CallFailed(t)
         /\ CallFailed(t) =>
               /\ \A i \in (Len(ktrace[t]) + 1)..Len(ktrace'[t]) :
                     ktrace'[t][i] =
                        <<[ev |-> "error", arg |-> 0], [ev |-> "log", arg |-> 0],
                          [ev |-> "sleep", arg |-> 10]>>[i - Len(ktrace[t])]
               /\ pc'[t] = Entry(t)
               /\ exitcode = -1 /\ exitcode' = -1
               /\ \A u \in Procs \ {t} : pc'[u] = pc[u]]_vars

\* the first call of the pull thread failed; it is back at its guard while
\* the other two threads run
C16_Witness ==
    /\ "pull" \in obs
    /\ Len(ktrace["pull"]) = 3 /\ ktrace["pull"][1].ev = "error"
    /\ pc["pull"] = "pl_guard"
    /\ pc["track"] = "tr_watch" /\ pc["push"] \notin {"unborn", "dead"}
    /\ exitcode = -1

\* C17: fs_changed goes from True to False only at line 219, at the end of a
\* call of push_changes whose three commands raised nothing (stage exited 0,
\* commit 0 or 1, push 0 or -2); it is True all through a cycle, and still
\* True when a cycle ends by raising, the thread being back at line 204.
\* Checked under Spec.
InPushCycle ==
    pc["push"] \in {"ps_getcwd", "ps_chdir", "ps_add", "ps_commit", "ps_push",
                    "ps_finally", "ps_clear"}

C17_ClearedOnlyOnSuccess ==
    /\ [](InPushCycle => fs_changed)
    /\ [][((fs_changed /\ ~fs_changed') =>
               LET iss == issued["push"] IN
               /\ pc["push"] = "ps_clear" /\ pc'["push"] = "ps_check"
               /\ Len(iss) = 3
               /\ iss[1].cmd = "git add ." /\ iss[1].rc = 0
               /\ iss[2].cmd = "git commit -a" /\ iss[2].rc \in {0, 1}
               /\ iss[3].cmd = "git push origin master" /\ iss[3].rc \in {0, -2})
          /\ ((exc["push"].kind = "error" /\ pc'["push"] # pc["push"]) =>
               (fs_changed' /\ pc'["push"] = "ps_check"))]_vars

\* a cycle whose commit found nothing and whose push was cut short by signal
\* 2 is about to clear fs_changed
C17_Witness ==
    /\ pc["push"] = "ps_clear"
    /\ fs_changed
    /\ issued["push"][2].rc = 1
    /\ issued["push"][3].rc = -2

\* C18 as stated: at the step with which init_local_repo, pull_changes or
\* push_changes finishes (the finally block when it raises or when it ends
\* init_local_repo, line 201 or line 219 when it returns), the working
\* directory is the one the function saved.  Checked under Spec.
C18_CwdAtFinish ==
    [][\A p \in Procs :
         (/\ pc'[p] # pc[p]
          /\ \/ pc[p] \in {"il_finally", "pl_set", "ps_clear"}
             \/ pc[p] \in {"pl_finally", "ps_finally"} /\ exc[p] # NoExc)
            => cwd' = saved[p]]_vars

\* C18 as amended: the finally block of each of the three functions, on
\* every exit path, sets the working directory to the one the function
\* saved, and the statement that follows it in pull_changes (line 201) and
\* in push_changes (line 219) leaves the working directory alone.
C18_CwdRestored ==
    [][\A p \in Procs :
         pc'[p] # pc[p] =>
            /\ pc[p] \in {"il_finally", "pl_finally", "ps_finally"} => cwd' = saved[p]
            /\ pc[p] \in {"pl_set", "ps_clear"} => cwd' = cwd]_vars

\* the bootstrap of the initial pull failed after both of its chdir calls:
\* the process has ended, back in the directory it started in
C18_Witness ==
    LET iss == issued["main"] IN
    /\ exitcode = 1
    /\ iss # <<>>
    /\ iss[Len(iss)].cmd = "touch README.md"
    /\ cwd = "start"

\* C19: next_pull_at is never more than POLL_INTERVAL ahead of the clock;
\* once POLL_INTERVAL has passed since pull_changes last completed, the guard
\* of line 189 lets a call through, notified or not; a call of pull_changes
\* that raises, and a remote watch command that fails, leave next_pull_at as
\* it was.  Checked under SpecDone.
C19_BoundedDeadline ==
    /\ [](next_pull_at <= now + 600)
    /\ []((lastPullDoneAt # -1 /\ now >= lastPullDoneAt + 600) => ~(next_pull_at > now))
    /\ [][(\A p \in Pullers :
               (pc'[p] # pc[p] /\ (pc[p] = "pl_pull" \/ exc[p] # NoExc))
                  => next_pull_at' = next_pull_at)
          /\ ((pc["track"] = "tr_watch" /\ pc'["track"] # "tr_set")
                  => next_pull_at' \in {next_pull_at, now + 600})]_vars

\* a whole interval after the last pull completed, with no notification, the
\* pull thread is past the guard and about to invoke "git pull"
C19_Witness ==
    /\ lastPullDoneAt # -1
    /\ ~notifSinceDone
    /\ now = lastPullDoneAt + 600
    /\ pc["pull"] = "pl_pull"

\* C20: fs_changed is True from construction until a call of push_changes
\* returns normally for the first time, and that call returns from line 219,
\* having issued the stage, commit and push commands (it did not return at
\* line 204), whether or not an event was delivered.  Checked under SpecSup.
HasOk(tr) == \E i \in 1..Len(tr) : tr[i].ev = "ok"

C20_DirtyAtStartup ==
    /\ []("push" \in obs =>
            (/\ (pc["push"] = "unborn") => (fs_changed /\ ktrace["push"] = <<>>)
             /\ (~HasOk(ktrace["push"]) /\ Len(ktrace["push"]) < MaxTrace) => fs_changed))
    /\ [][("push" \in obs /\ ~HasOk(ktrace["push"]) /\ HasOk(ktrace'["push"])) =>
             LET iss == issued["push"] IN
             /\ pc["push"] = "ps_clear"
             /\ Len(iss) = 3
             /\ iss[1].cmd = "git add ."
             /\ iss[2].cmd = "git commit -a"
             /\ iss[3].cmd = "git push origin master"
             /\ fs_changed /\ ~fs_changed']_vars

\* the first call of push_changes failed, the retry went through and cleared
\* fs_changed
C20_Witness ==
    /\ "push" \in obs
    /\ Len(ktrace["push"]) = 5
    /\ ktrace["push"][1].ev = "error" /\ ktrace["push"][4].ev = "ok"
    /\ ~fs_changed

====
